---- MODULE Spec2Model ----
(***************************************************************************)
(* Model of kl_tools/velocity.py: the VelocityModel parameter set, the     *)
(* model registry (MODEL_TYPES / build_model) and the VelocityMap field    *)
(* evaluator.                                                              *)
(*                                                                         *)
(* Real numbers are fixed-point integers with three decimal digits         *)
(* (1.0 is Scale); a numpy array is a sequence, operated on elementwise.   *)
(* A Python value is a pair <<type tag, payload>>.                         *)
(***************************************************************************)
EXTENDS Integers, Sequences, FiniteSets, TLC

\* ------------------------------------------------------------------ bounds
\* largest |coordinate| (in whole radius units) of the first array element
MaxCoord == 2
\* longest coordinate array passed to an evaluation
MaxLen == 2
\* number of times the caller touches its mapping (before or after building)
MaxMutations == 2

\* ------------------------------------------------------- fixed-point reals
Scale == 10 * 10 * 10

Abs(a) == IF a < 0 THEN -a ELSE a

\* division rounding toward zero, symmetric in sign as float rounding is
TruncDiv(a, b) ==
    IF (a >= 0) = (b > 0) THEN Abs(a) \div Abs(b) ELSE -(Abs(a) \div Abs(b))

FMul(a, b) == TruncDiv(a * b, Scale)
FDiv(a, b) == TruncDiv(a * Scale, b)

RECURSIVE ISqrtIn(_, _, _)
ISqrtIn(n, lo, hi) ==
    IF lo >= hi THEN lo
    ELSE LET mid == (lo + hi + 1) \div 2
         IN IF mid * mid <= n THEN ISqrtIn(n, mid, hi) ELSE ISqrtIn(n, lo, mid - 1)

\* floor of the square root of a natural number
ISqrt(n) == ISqrtIn(n, 0, 46340)

\* np.sqrt(x**2 + y**2) on fixed-point x, y
Hypot(x, y) == ISqrt(x * x + y * y)

\* 2./np.pi
TwoOverPi == 637

\* np.arctan: true values (in 1/Scale radians) at the knots, linear between
ArctanKnots == << <<0, 0>>, <<250, 245>>, <<500, 464>>, <<1000, 785>>,
                 <<2000, 1107>>, <<4000, 1326>>, <<8000, 1446>>,
                 <<16000, 1508>> >>

RECURSIVE ArctanSeg(_, _)
ArctanSeg(q, i) ==
    IF i >= Len(ArctanKnots) THEN ArctanKnots[Len(ArctanKnots)][2]
    ELSE LET a == ArctanKnots[i]
             b == ArctanKnots[i + 1]
         IN IF q <= b[1]
            THEN a[2] + ((q - a[1]) * (b[2] - a[2])) \div (b[1] - a[1])
            ELSE ArctanSeg(q, i + 1)

Arctan(q) == IF q >= 0 THEN ArctanSeg(q, 1) ELSE -ArctanSeg(-q, 1)

\* np.arctan2(y, x): the angle is kept as its direction <<cos, sin>>;
\* arctan2(0, 0) is the angle 0
Arctan2(y, x) ==
    IF x = 0 /\ y = 0 THEN <<Scale, 0>>
    ELSE LET r == Hypot(x, y) IN <<FDiv(x, r), FDiv(y, r)>>

\* np.cos of an angle produced by Arctan2
Cos(phi) == phi[1]

\* exact rationals <<p, q>>, q > 0, in lowest terms (quantities too small
\* or too large for the fixed-point grid: the speed of light, v / c)
RECURSIVE Gcd(_, _)
Gcd(a, b) == IF b = 0 THEN a ELSE Gcd(b, a % b)

Rat(p, q) ==
    LET g == Gcd(Abs(p), Abs(q))
        s == IF q < 0 THEN -1 ELSE 1
    IN IF p = 0 THEN <<0, 1>> ELSE <<s * (p \div g), s * (q \div g)>>

\* 1. / r
RatRecip(r) == Rat(r[2], r[1])

\* r * a for a fixed-point a
RatScale(r, a) == Rat(r[1] * a, r[2])

\* a / r for a rational a
RatDiv(a, r) == Rat(a[1] * r[2], a[2] * r[1])

\* ------------------------------------------------------------ Python values
PyNum(n) == [t |-> "num", n |-> n, u |-> ""]
PyNone == [t |-> "none", n |-> 0, u |-> ""]
PyUnit(u) == [t |-> "unit", n |-> 0, u |-> u]
PyStr(u) == [t |-> "str", n |-> 0, u |-> u]

\* isinstance(u, units.Unit / CompositeUnit / IrreducibleUnit)
IsUnit(v) == v.t = "unit"

\* const.c.to(unit).value for the units that are a speed
SpeedUnits == {"km/s", "m/s"}
LightSpeedIn(u) == IF u = "m/s" THEN <<299792458, 1>> ELSE <<149896229, 500>>

\* a dict is the sequence of its items in insertion order
DictKeys(d) == {d[i].k : i \in 1..Len(d)}
DictHas(d, k) == k \in DictKeys(d)
DictGet(d, k) == d[CHOOSE i \in 1..Len(d) : d[i].k = k].v
DictSet(d, k, v) ==
    IF DictHas(d, k)
    THEN [i \in 1..Len(d) |-> IF d[i].k = k THEN [k |-> k, v |-> v] ELSE d[i]]
    ELSE Append(d, [k |-> k, v |-> v])
DictDel(d, k) == SelectSeq(d, LAMBDA it : it.k # k)

\* ------------------------------------------------------------ VelocityModel
\* VelocityModel._model_params
model_params == <<"v0", "vcirc", "rscale", "sini", "theta_int",
                  "g1", "g2", "r_unit", "v_unit">>

ModelParamSet == {model_params[i] : i \in 1..Len(model_params)}

\* the first loop of _check_model_pars, from item i on
RECURSIVE CheckItems(_, _)
CheckItems(d, i) ==
    IF i > Len(d) THEN "ok"
    ELSE IF d[i].v = PyNone THEN "NameError"
    ELSE IF d[i].k \notin ModelParamSet THEN "AttributeError"
    ELSE CheckItems(d, i + 1)

\* _check_model_pars without its check of the unit parameters
check_model_pars_nounits(d) ==
    IF CheckItems(d, 1) # "ok" THEN CheckItems(d, 1)
    ELSE IF \E i \in 1..Len(model_params) : ~DictHas(d, model_params[i])
         THEN "AttributeError"
    ELSE "ok"

\* VelocityModel._check_model_pars: "ok" or the exception it raises
check_model_pars(d) ==
    IF CheckItems(d, 1) # "ok" THEN CheckItems(d, 1)
    ELSE IF \E i \in 1..Len(model_params) : ~DictHas(d, model_params[i])
         THEN "AttributeError"
    ELSE IF ~IsUnit(DictGet(d, "r_unit")) \/ ~IsUnit(DictGet(d, "v_unit"))
         THEN "TypeError"
    ELSE "ok"

\* parameters.pars2theta: the values in the fixed order of the nine names
pars2theta(d) == [i \in 1..Len(model_params) |-> DictGet(d, model_params[i])]

NoModel == [built |-> FALSE, pars_arr |-> <<>>]

\* VelocityModel.__init__: the exception raised ("ok" if none) and the
\* object; its pars attribute is the caller's dict itself, not a copy
VelocityModelInit(mp) ==
    IF mp.type # "dict" THEN [err |-> "TypeError", model |-> NoModel]
    ELSE IF check_model_pars(mp.items) # "ok"
         THEN [err |-> check_model_pars(mp.items), model |-> NoModel]
    ELSE [err |-> "ok",
          model |-> [built |-> TRUE, pars_arr |-> pars2theta(mp.items)]]

\* VelocityModel.get_transform_pars: a new dict, or KeyError
get_transform_pars(d) ==
    IF {"g1", "g2", "sini", "theta_int"} \subseteq DictKeys(d)
    THEN [err |-> "ok",
          pars |-> << [k |-> "g1", v |-> DictGet(d, "g1")],
                      [k |-> "g2", v |-> DictGet(d, "g2")],
                      [k |-> "sini", v |-> DictGet(d, "sini")],
                      [k |-> "theta_int", v |-> DictGet(d, "theta_int")] >>]
    ELSE [err |-> "KeyError", pars |-> <<>>]

\* ----------------------------------------------------------------- registry
\* the keys of MODEL_TYPES; both entries are the class VelocityModel
RegisteredNames == {"default", "centered"}

\* str.lower on the model names tried
ModelNames == {"centered", "Centered", "DEFAULT", "default", "offset", "Offset"}
Lower(name) ==
    CASE name = "Centered" -> "centered"
      [] name = "DEFAULT" -> "default"
      [] name = "Offset" -> "offset"
      [] OTHER -> name

\* build_model without name.lower()
build_model_exact(reg, name, mp) ==
    IF name \in reg
    THEN VelocityModelInit(mp)
    ELSE [err |-> "ValueError", model |-> NoModel]

\* build_model(name, pars) against the registry reg
build_model(reg, name, mp) ==
    IF Lower(name) \in reg
    THEN VelocityModelInit(mp)
    ELSE [err |-> "ValueError", model |-> NoModel]

\* ------------------------------------------------------- plane transforms
\* TransformableImage._planes
Planes == {"disk", "gal", "source", "obs"}

\* np.cos / np.sin at the intrinsic angles used: 0 and pi/3 (1.047)
ThetaValues == {0, 1047}
CosTheta(th) == IF th = 0 THEN Scale ELSE 500
SinTheta(th) == IF th = 0 THEN 0 ELSE 866

\* transformation._gal2disk: undo the inclination, y / cos(i)
gal2disk(pars, x, y) ==
    LET cosi == ISqrt(Scale * Scale - pars["sini"] * pars["sini"])
    IN [x |-> x, y |-> [i \in 1..Len(y) |-> FDiv(y[i], cosi)]]

\* transformation._source2gal: rotate by -theta_int
source2gal(pars, x, y) ==
    LET c == CosTheta(pars["theta_int"])
        s == SinTheta(pars["theta_int"])
    IN [x |-> [i \in 1..Len(x) |-> FMul(c, x[i]) + FMul(s, y[i])],
        y |-> [i \in 1..Len(x) |-> FMul(c, y[i]) - FMul(s, x[i])]]

\* transformation._obs2source: the linear reduced-shear map
obs2source(pars, x, y) ==
    LET g1 == pars["g1"]
        g2 == pars["g2"]
    IN [x |-> [i \in 1..Len(x) |-> FMul(Scale - g1, x[i]) - FMul(g2, y[i])],
        y |-> [i \in 1..Len(x) |-> FMul(Scale + g1, y[i]) - FMul(g2, x[i])]]

\* ---------------------------------------------------------- field evaluator
\* _eval_in_disk_plane without the early return of zeros
eval_in_disk_plane_nozero(pars, x, y, kwargs) ==
    [i \in 1..Len(x) |->
        LET r == Hypot(x[i], y[i])
            atan_r == Arctan(FDiv(r, pars["rscale"]))
        IN pars["v0"] + FMul(FMul(TwoOverPi, pars["vcirc"]), atan_r)]

\* _eval_in_disk_plane with the arctan term subtracted
eval_in_disk_plane_minus(pars, x, y, kwargs) ==
    IF kwargs.speed = FALSE THEN [i \in 1..Len(x) |-> 0]
    ELSE [i \in 1..Len(x) |->
            LET r == Hypot(x[i], y[i])
                atan_r == Arctan(FDiv(r, pars["rscale"]))
            IN pars["v0"] - FMul(FMul(TwoOverPi, pars["vcirc"]), atan_r)]

\* VelocityMap._eval_in_disk_plane
eval_in_disk_plane(pars, x, y, kwargs) ==
    IF kwargs.speed = FALSE THEN [i \in 1..Len(x) |-> 0]
    ELSE [i \in 1..Len(x) |->
            LET r == Hypot(x[i], y[i])
                atan_r == Arctan(FDiv(r, pars["rscale"]))
            IN pars["v0"] + FMul(FMul(TwoOverPi, pars["vcirc"]), atan_r)]

\* _eval_in_gal_plane with the azimuth of the gal-plane point
eval_in_gal_plane_galphi(pars, x, y, kwargs) ==
    LET p == gal2disk(pars, x, y)
        speed == kwargs.speed
        kwargs2 == [kwargs EXCEPT !.speed = TRUE]
        speed_map == eval_in_disk_plane(pars, p.x, p.y, kwargs2)
    IN IF speed = TRUE THEN speed_map
       ELSE [i \in 1..Len(x) |->
               LET phi == Arctan2(y[i], x[i])
               IN FMul(FMul(pars["sini"], Cos(phi)), speed_map[i])]

\* _eval_in_gal_plane testing kwargs['speed'] after it was forced to True
eval_in_gal_plane_forced(pars, x, y, kwargs) ==
    LET p == gal2disk(pars, x, y)
        kwargs2 == [kwargs EXCEPT !.speed = TRUE]
        speed == kwargs2.speed
        speed_map == eval_in_disk_plane(pars, p.x, p.y, kwargs2)
    IN IF speed = TRUE THEN speed_map
       ELSE [i \in 1..Len(x) |->
               LET phi == Arctan2(p.y[i], p.x[i])
               IN FMul(FMul(pars["sini"], Cos(phi)), speed_map[i])]

\* VelocityMap._eval_in_gal_plane; kwargs is this call's own dict, so
\* forcing kwargs['speed'] is not seen by the caller
eval_in_gal_plane(pars, x, y, kwargs) ==
    LET p == gal2disk(pars, x, y)
        speed == kwargs.speed
        kwargs2 == [kwargs EXCEPT !.speed = TRUE]
        speed_map == eval_in_disk_plane(pars, p.x, p.y, kwargs2)
    IN IF speed = TRUE THEN speed_map
       ELSE [i \in 1..Len(x) |->
               LET phi == Arctan2(p.y[i], p.x[i])
               IN FMul(FMul(pars["sini"], Cos(phi)), speed_map[i])]

\* TransformableImage._eval_in_source_plane
eval_in_source_plane(pars, x, y, kwargs) ==
    LET p == source2gal(pars, x, y) IN eval_in_gal_plane(pars, p.x, p.y, kwargs)

\* TransformableImage._eval_in_obs_plane
eval_in_obs_plane(pars, x, y, kwargs) ==
    LET p == obs2source(pars, x, y) IN eval_in_source_plane(pars, p.x, p.y, kwargs)

\* TransformableImage._get_plane_eval_func applied to its arguments
plane_eval_func(plane, pars, x, y, kwargs) ==
    CASE plane = "disk" -> eval_in_disk_plane(pars, x, y, kwargs)
      [] plane = "gal" -> eval_in_gal_plane(pars, x, y, kwargs)
      [] plane = "source" -> eval_in_source_plane(pars, x, y, kwargs)
      [] OTHER -> eval_in_obs_plane(pars, x, y, kwargs)

\* what the evaluation functions read from a parameter dict (by name) ...
DictLookup(d) == [k \in DictKeys(d) |-> DictGet(d, k).n]

\* ... and from the flattened array (by position)
ArrayLookup(arr) == [k \in ModelParamSet |->
                       arr[CHOOSE i \in 1..Len(model_params) : model_params[i] = k].n]

\* the parameters an evaluation in the plane reads
ParsRead(plane, speed) ==
    (IF plane = "disk" /\ ~speed THEN {} ELSE {"v0", "vcirc", "rscale"})
    \cup (IF plane = "disk" THEN {} ELSE {"sini"})
    \cup (IF plane \in {"source", "obs"} THEN {"theta_int"} ELSE {})
    \cup (IF plane = "obs" THEN {"g1", "g2"} ELSE {})

\* VelocityMap._eval_map_in_plane: the field, or the exception of a lookup
\* in a dict that lost the entry or holds a non-number
eval_map_in_plane(model, d, plane, x, y, speed, use_numba) ==
    IF use_numba = TRUE
    THEN [err |-> "ok",
          out |-> plane_eval_func(plane, ArrayLookup(model.pars_arr), x, y,
                                  [speed |-> speed])]
    ELSE IF ~(ParsRead(plane, speed) \subseteq DictKeys(d))
         THEN [err |-> "KeyError", out |-> <<>>]
    ELSE IF \E k \in ParsRead(plane, speed) : DictGet(d, k).t # "num"
         THEN [err |-> "TypeError", out |-> <<>>]
    ELSE [err |-> "ok",
          out |-> plane_eval_func(plane, DictLookup(d), x, y, [speed |-> speed])]

\* TransformableImage.__call__: the plane must be one of _planes
check_plane(plane) == IF plane \in Planes THEN "ok" ELSE "ValueError"

\* the factor norm from const.c.value, which is in m/s whatever v_unit is
norm_factor_si(d, normalized) ==
    IF normalized # TRUE THEN [err |-> "ok", norm |-> <<1, 1>>]
    ELSE IF ~DictHas(d, "v_unit") THEN [err |-> "KeyError", norm |-> <<1, 1>>]
    ELSE IF ~IsUnit(DictGet(d, "v_unit")) THEN [err |-> "TypeError", norm |-> <<1, 1>>]
    ELSE IF DictGet(d, "v_unit").u \notin SpeedUnits
         THEN [err |-> "UnitConversionError", norm |-> <<1, 1>>]
    ELSE [err |-> "ok", norm |-> RatRecip(LightSpeedIn("m/s"))]

\* the factor norm of VelocityMap.__call__
norm_factor(d, normalized) ==
    IF normalized # TRUE THEN [err |-> "ok", norm |-> <<1, 1>>]
    ELSE IF ~DictHas(d, "v_unit") THEN [err |-> "KeyError", norm |-> <<1, 1>>]
    ELSE IF ~IsUnit(DictGet(d, "v_unit")) THEN [err |-> "TypeError", norm |-> <<1, 1>>]
    ELSE IF DictGet(d, "v_unit").u \notin SpeedUnits
         THEN [err |-> "UnitConversionError", norm |-> <<1, 1>>]
    ELSE [err |-> "ok", norm |-> RatRecip(LightSpeedIn(DictGet(d, "v_unit").u))]

\* VelocityMap.__call__
velocity_map_call(model, d, plane, x, y, speed, normalized, use_numba) ==
    IF check_plane(plane) # "ok" THEN [err |-> check_plane(plane), out |-> <<>>]
    ELSE IF norm_factor(d, normalized).err # "ok"
         THEN [err |-> norm_factor(d, normalized).err, out |-> <<>>]
    ELSE LET f == eval_map_in_plane(model, d, plane, x, y, speed, use_numba)
             norm == norm_factor(d, normalized).norm
         IN IF f.err # "ok" THEN f
            ELSE [err |-> "ok",
                  out |-> [i \in 1..Len(f.out) |-> RatScale(norm, f.out[i])]]

\* -------------------------------------------------------------------- state
VARIABLES
    model_pars,      \* the caller's mapping object: its type and its items
    MODEL_TYPES,     \* the registry (its keys)
    status,          \* "start", "built" (a VelocityMap exists) or "raised"
    model,           \* VelocityMap.model; model.pars is the object model_pars
    transform_pars,  \* the dict VelocityMap.__init__ hands to its base class
    validated,       \* the items model.pars held when _check_model_pars passed
    nmut,            \* how often the caller has touched its mapping
    last             \* the last call made: its arguments and its outcome

vars == <<model_pars, MODEL_TYPES, status, model, transform_pars, validated,
          nmut, last>>

\* the parameters of main()
MainPars ==
    << [k |-> "v0", v |-> PyNum(0)],
       [k |-> "vcirc", v |-> PyNum(200 * Scale)],
       [k |-> "rscale", v |-> PyNum(3 * Scale)],
       [k |-> "sini", v |-> PyNum(800)],
       [k |-> "theta_int", v |-> PyNum(1047)],
       [k |-> "r_unit", v |-> PyUnit("pixel")],
       [k |-> "v_unit", v |-> PyUnit("km/s")],
       [k |-> "g1", v |-> PyNum(100)],
       [k |-> "g2", v |-> PyNum(50)] >>

\* valid parameter dicts evaluated in SpecEval
V0Values == {0, 10 * Scale}
VcircValues == {200 * Scale, -200 * Scale}
RscaleValues == {3 * Scale, -3 * Scale}
SiniValues == {0, 600, 800}
ShearValues == {<<0, 0, 0>>, <<1047, 100, 50>>}

ParsDict(v0, vcirc, rscale, sini, sh, vu) ==
    << [k |-> "v0", v |-> PyNum(v0)],
       [k |-> "vcirc", v |-> PyNum(vcirc)],
       [k |-> "rscale", v |-> PyNum(rscale)],
       [k |-> "sini", v |-> PyNum(sini)],
       [k |-> "theta_int", v |-> PyNum(sh[1])],
       [k |-> "r_unit", v |-> PyUnit("kpc")],
       [k |-> "v_unit", v |-> PyUnit(vu)],
       [k |-> "g1", v |-> PyNum(sh[2])],
       [k |-> "g2", v |-> PyNum(sh[3])] >>

ValidDicts ==
    {ParsDict(v0, vcirc, rscale, sini, sh, vu) :
        v0 \in V0Values, vcirc \in VcircValues, rscale \in RscaleValues,
        sini \in SiniValues, sh \in ShearValues, vu \in SpeedUnits}

NoCall == [op |-> "none", name |-> "", arg |-> <<>>, plane |-> "", x |-> <<>>,
           y |-> <<>>, speed |-> FALSE, normalized |-> FALSE,
           use_numba |-> FALSE, err |-> "ok", out |-> <<>>, tp |-> <<>>]

\* the keys the caller touches and the values it stores
MutKeys == {"rscale", "v_unit", "foo"}
NewValues(k) ==
    CASE k = "rscale" -> {PyNone, PyNum(Scale)}
      [] k = "v_unit" -> {PyStr("km/s"), PyUnit("kpc")}
      [] OTHER -> {PyNone, PyNum(Scale)}

\* before VelocityMap(model_name, model_pars): the caller holds a dict like
\* main()'s, or something that is not a dict
Init ==
    /\ model_pars \in {[type |-> "dict", items |-> MainPars],
                       [type |-> "list", items |-> <<>>]}
    /\ MODEL_TYPES = RegisteredNames
    /\ status = "start"
    /\ model = NoModel
    /\ transform_pars = <<>>
    /\ validated = <<>>
    /\ nmut = 0
    /\ last = NoCall

\* the caller stores model_pars[k] = v
CallerSet(k, v) ==
    /\ model_pars.type = "dict"
    /\ nmut < MaxMutations
    /\ model_pars' = [model_pars EXCEPT !.items = DictSet(@, k, v)]
    /\ nmut' = nmut + 1
    /\ UNCHANGED <<MODEL_TYPES, status, model, transform_pars, validated, last>>

\* the caller does del model_pars[k]
CallerDel(k) ==
    /\ model_pars.type = "dict"
    /\ nmut < MaxMutations
    /\ DictHas(model_pars.items, k)
    /\ model_pars' = [model_pars EXCEPT !.items = DictDel(@, k)]
    /\ nmut' = nmut + 1
    /\ UNCHANGED <<MODEL_TYPES, status, model, transform_pars, validated, last>>

\* VelocityMap.__init__(model_name, model_pars)
NewVelocityMap(name) ==
    /\ status = "start"
    /\ LET b == build_model(MODEL_TYPES, name, model_pars)
           t == get_transform_pars(model_pars.items)
       IN /\ model' = b.model
          /\ status' = IF b.err = "ok" THEN "built" ELSE "raised"
          /\ validated' = IF b.err = "ok" THEN model_pars.items ELSE <<>>
          /\ transform_pars' = IF b.err = "ok" THEN t.pars ELSE <<>>
          /\ last' = [NoCall EXCEPT !.op = "build", !.name = name,
                                    !.arg = model_pars, !.err = b.err]
    /\ UNCHANGED <<model_pars, MODEL_TYPES, nmut>>

\* the coordinate array of length n that starts at c and steps by one unit
Row(c, n) == [i \in 1..n |-> (c + i - 1) * Scale]
\* the constant coordinate array
Const(c, n) == [i \in 1..n |-> c * Scale]

PlaneArgs == Planes \cup {"disky"}

\* vmap(plane, x, y, speed, normalized, use_numba) with x = Row(x0, n),
\* y = Const(y0, n)
Evaluate(plane, x0, y0, n, speed, normalized, use_numba) ==
    /\ status = "built"
    /\ LET x == Row(x0, n)
           y == Const(y0, n)
           r == velocity_map_call(model, model_pars.items, plane, x, y,
                                  speed, normalized, use_numba)
       IN last' = [NoCall EXCEPT !.op = "eval", !.arg = model_pars,
                                 !.plane = plane, !.x = x, !.y = y,
                                 !.speed = speed, !.normalized = normalized,
                                 !.use_numba = use_numba,
                                 !.err = r.err, !.out = r.out]
    /\ UNCHANGED <<model_pars, MODEL_TYPES, status, model, transform_pars,
                   validated, nmut>>

\* vmap.model.get_transform_pars()
GetTransformPars ==
    /\ status = "built"
    /\ LET t == get_transform_pars(model_pars.items)
       IN last' = [NoCall EXCEPT !.op = "get_transform_pars",
                                 !.arg = model_pars, !.err = t.err, !.tp = t.pars]
    /\ UNCHANGED <<model_pars, MODEL_TYPES, status, model, transform_pars,
                   validated, nmut>>

Next ==
    \/ \E k \in MutKeys : \E v \in NewValues(k) : CallerSet(k, v)
    \/ \E k \in MutKeys : CallerDel(k)
    \/ \E name \in ModelNames : NewVelocityMap(name)
    \/ \E plane \in PlaneArgs, speed \in BOOLEAN, normalized \in BOOLEAN,
          use_numba \in BOOLEAN :
          Evaluate(plane, MaxCoord, 1, 1, speed, normalized, use_numba)
    \/ GetTransformPars

Spec == Init /\ [][Next]_vars

\* a VelocityMap built from one of the valid dicts ds, which the caller
\* then leaves alone
InitBuilt(ds) ==
    /\ \E d \in ds :
         /\ model_pars = [type |-> "dict", items |-> d]
         /\ model = VelocityModelInit(model_pars).model
         /\ validated = d
         /\ transform_pars = get_transform_pars(d).pars
    /\ MODEL_TYPES = RegisteredNames
    /\ status = "built"
    /\ nmut = 0
    /\ last = NoCall

\* every plane, flag and backend at a few points, for all the valid dicts
InitEval == InitBuilt(ValidDicts)

NextEval ==
    \/ \E plane \in PlaneArgs, x0 \in {0, MaxCoord}, y0 \in {1},
          speed \in BOOLEAN, normalized \in BOOLEAN, use_numba \in BOOLEAN :
          Evaluate(plane, x0, y0, MaxLen, speed, normalized, use_numba)
    \/ GetTransformPars

SpecEval == InitEval /\ [][NextEval]_vars

\* the disk plane on the whole coordinate grid, for the profile parameters
DiskDicts ==
    {ParsDict(v0, vcirc, rscale, 800, <<1047, 100, 50>>, "km/s") :
        v0 \in V0Values, vcirc \in VcircValues, rscale \in RscaleValues}

InitDisk == InitBuilt(DiskDicts)

NextDisk ==
    \/ \E x0 \in -MaxCoord..MaxCoord, y0 \in -MaxCoord..MaxCoord,
          n \in 1..MaxLen, speed \in BOOLEAN :
          Evaluate("disk", x0, y0, n, speed, FALSE, FALSE)
    \/ GetTransformPars

SpecDisk == InitDisk /\ [][NextDisk]_vars

\* the gal plane on the whole coordinate grid, for every inclination
GalDicts ==
    {ParsDict(v0, vcirc, 3 * Scale, sini, <<1047, 100, 50>>, "km/s") :
        v0 \in V0Values, vcirc \in VcircValues, sini \in SiniValues}

InitGal == InitBuilt(GalDicts)

NextGal ==
    \/ \E x0 \in -MaxCoord..MaxCoord, y0 \in -MaxCoord..MaxCoord,
          n \in 1..MaxLen, speed \in BOOLEAN :
          Evaluate("gal", x0, y0, n, speed, FALSE, FALSE)
    \/ GetTransformPars

SpecGal == InitGal /\ [][NextGal]_vars

\* =================================================================== claims
\* the value of parameter k in the dict the last call was made with
ArgNum(k) == DictGet(last.arg.items, k).n

LastBuild == last.op = "build"
LastEvalOk == last.op = "eval" /\ last.err = "ok"

\* the numerator of a returned field element that was not normalized
Field(i) == last.out[i][1]

\* names that differ from a registered key by case only
RegisteredAnyCase == {"centered", "Centered", "DEFAULT", "default"}

\* the mapping is a dict with exactly the nine names, no None value and
\* unit objects as r_unit and v_unit
ValidMapping(mp) ==
    /\ mp.type = "dict"
    /\ DictKeys(mp.items) = {"v0", "vcirc", "rscale", "sini", "theta_int",
                             "g1", "g2", "r_unit", "v_unit"}
    /\ \A i \in 1..Len(mp.items) : mp.items[i].v.t # "none"
    /\ \A i \in 1..Len(mp.items) :
          mp.items[i].k \in {"r_unit", "v_unit"} => mp.items[i].v.t = "unit"

\* C1: construction (under a registered name) succeeds if and only if the
\* mapping is a dict with exactly the nine names, no None value and unit
\* objects for r_unit and v_unit; otherwise an error is raised and no model
\* is returned.
C1_ConstructionIffValid ==
    (LastBuild /\ last.name \in RegisteredAnyCase) =>
        /\ (last.err = "ok") <=> ValidMapping(last.arg)
        /\ (last.err = "ok") <=> (status = "built" /\ model.built)
        /\ (last.err # "ok") <=> (status = "raised" /\ model = NoModel)

\* C1 witness: a dict with the extra key foo was refused
C1_Witness ==
    /\ LastBuild /\ last.name \in RegisteredAnyCase
    /\ last.arg.type = "dict" /\ DictHas(last.arg.items, "foo")
    /\ \A i \in 1..Len(last.arg.items) : last.arg.items[i].v # PyNone
    /\ last.err = "AttributeError" /\ status = "raised"

\* C2: a mapping holding a recognized name whose value is None makes
\* construction fail with the ValueError "... must be set!" and with no
\* other error.
C2_NullRaisesValueError ==
    (/\ LastBuild /\ last.name \in RegisteredAnyCase
     /\ last.arg.type = "dict"
     /\ \E i \in 1..Len(last.arg.items) :
           /\ last.arg.items[i].k \in ModelParamSet
           /\ last.arg.items[i].v = PyNone)
    => last.err = "ValueError"

\* C3: build_model looks the name up by its lowercase form: a name that is
\* a registered key up to case gives what the constructor gives for pars
\* (the model, or the constructor's own error); any other name raises the
\* unknown-model ValueError and builds nothing; the registry is unchanged.
C3_BuildModelLookup ==
    /\ MODEL_TYPES = {"default", "centered"}
    /\ LastBuild =>
          IF last.name \in RegisteredAnyCase
          THEN /\ last.err = VelocityModelInit(last.arg).err
               /\ model = VelocityModelInit(last.arg).model
          ELSE /\ last.err = "ValueError"
               /\ model = NoModel /\ status = "raised"

\* C3 witness: the upper-case name DEFAULT built a model
C3_Witness ==
    LastBuild /\ last.name = "DEFAULT" /\ last.err = "ok" /\ model.built

\* C4: at any point of the model's lifetime the array backend
\* (use_numba=True) and the dict backend (use_numba=False) return the same
\* field for the same plane, coordinates and speed flag.
C4_BackendsAgree ==
    (last.op = "eval" /\ last.plane \in Planes) =>
        LET other == velocity_map_call(model, last.arg.items, last.plane,
                                       last.x, last.y, last.speed,
                                       last.normalized, ~last.use_numba)
        IN other.err = last.err /\ other.out = last.out

\* C5: after a successful construction model.pars holds exactly the values
\* it held when validation passed, and pars_arr is its flattening.
C5_ParsImmutable ==
    status = "built" =>
        /\ model_pars.items = validated
        /\ model.pars_arr = pars2theta(validated)

\* the parameters of the worked example: v0=0, vcirc=200, rscale=3
ExamplePars ==
    ArgNum("v0") = 0 /\ ArgNum("vcirc") = 200 * Scale /\ ArgNum("rscale") = 3 * Scale

\* C6: velocity (speed=False) in the disk plane is zero at every coordinate,
\* in an array of the shape of x; speed (speed=True) in the disk plane is the
\* radial profile: v0 at r = 0, and 100 at (3,0) for v0=0, vcirc=200,
\* rscale=3 (to the three digits carried).
C6_DiskPlaneVelocityZero ==
    (LastEvalOk /\ last.plane = "disk" /\ ~last.normalized) =>
        /\ Len(last.out) = Len(last.x)
        /\ \A i \in 1..Len(last.out) :
              /\ ~last.speed => last.out[i] = <<0, 1>>
              /\ (last.speed /\ last.x[i] = 0 /\ last.y[i] = 0)
                    => last.out[i] = Rat(ArgNum("v0"), 1)
              /\ (last.speed /\ ExamplePars
                    /\ last.x[i] = 3 * Scale /\ last.y[i] = 0)
                    => /\ last.out[i][2] = 1
                       /\ Abs(Field(i) - 100 * Scale) * Scale <= 100 * Scale

\* C6 witness: a velocity request at two disk-plane points, with a non-zero
\* v0, returned two zeros
C6_Witness ==
    /\ LastEvalOk /\ last.plane = "disk" /\ ~last.speed
    /\ ArgNum("v0") # 0 /\ last.x = <<2 * Scale, 3 * Scale>>
    /\ last.out = << <<0, 1>>, <<0, 1>> >>

\* the disk-plane point of the i-th gal-plane point of the last call
DiskPoint == gal2disk(DictLookup(last.arg.items), last.x, last.y)

\* the speed profile at the disk-plane points of the last call
DiskSpeed ==
    eval_in_disk_plane(DictLookup(last.arg.items), DiskPoint.x, DiskPoint.y,
                       [speed |-> TRUE])

\* sini * cos(phi) * v_r, phi being the azimuth of the point (x, y)
Projected(x, y, v_r) == FMul(FMul(ArgNum("sini"), Cos(Arctan2(y, x))), v_r)

\* C7 as claimed: gal-plane velocity is sini * cos(phi) * v_r with phi the
\* azimuth atan2(y_gal, x_gal) of the gal-plane point.
C7_PhiFromGalPlane ==
    (LastEvalOk /\ last.plane = "gal" /\ ~last.speed) =>
        \A i \in 1..Len(last.out) :
            last.out[i] = Rat(Projected(last.x[i], last.y[i], DiskSpeed[i]), 1)

\* C7 amended: gal-plane velocity is sini * cos(phi) * v_r with phi the
\* azimuth atan2(y_disk, x_disk) of the disk-plane point that the
\* gal-to-disk transform gives.
C7_PhiFromDiskPlane ==
    (LastEvalOk /\ last.plane = "gal" /\ ~last.speed) =>
        \A i \in 1..Len(last.out) :
            last.out[i] =
                Rat(Projected(DiskPoint.x[i], DiskPoint.y[i], DiskSpeed[i]), 1)

\* C7 witness: an inclined model, a point off both axes, and a velocity that
\* is the disk-azimuth projection and not the gal-azimuth one
C7_Witness ==
    /\ LastEvalOk /\ last.plane = "gal" /\ ~last.speed
    /\ ArgNum("sini") = 800 /\ last.x[1] # 0 /\ last.y[1] # 0
    /\ last.out[1] =
          Rat(Projected(DiskPoint.x[1], DiskPoint.y[1], DiskSpeed[1]), 1)
    /\ last.out[1] # Rat(Projected(last.x[1], last.y[1], DiskSpeed[1]), 1)

\* a velocity request that follows a speed request on the same inputs
VelocityAfterSpeed ==
    /\ LastEvalOk /\ last.speed /\ last'.op = "eval" /\ last'.err = "ok"
    /\ ~last'.speed
    /\ last'.plane = last.plane /\ last'.x = last.x /\ last'.y = last.y

\* C8: speed in the gal plane at (x, y) is the disk-plane speed at
\* gal2disk(x, y); a velocity request after a speed request on the same
\* inputs is still the velocity (the projection of the speed just returned),
\* not the speed.
C8_SpeedPlaneInvariant ==
    [][ /\ (last'.op = "eval" /\ last'.err = "ok" /\ last'.plane = "gal"
               /\ last'.speed)
            => \A i \in 1..Len(last'.out) :
                  last'.out[i] =
                     Rat(eval_in_disk_plane(DictLookup(last'.arg.items),
                            gal2disk(DictLookup(last'.arg.items),
                                     last'.x, last'.y).x,
                            gal2disk(DictLookup(last'.arg.items),
                                     last'.x, last'.y).y,
                            [speed |-> TRUE])[i], 1)
        /\ (VelocityAfterSpeed /\ last.plane = "gal")
            => \A i \in 1..Len(last'.out) :
                  last'.out[i] =
                     Rat(Projected(DiskPoint.x[i], DiskPoint.y[i], Field(i)), 1)
      ]_vars

\* C8 witness: speed was evaluated in the gal plane of an inclined model at
\* a point off the x axis, where the transform to the disk plane moves it
C8_Witness ==
    /\ LastEvalOk /\ last.plane = "gal" /\ last.speed
    /\ ArgNum("sini") = 800 /\ last.y[1] # 0
    /\ DiskPoint.y[1] # last.y[1]
    /\ last.out[1] = Rat(DiskSpeed[1], 1)

\* the squared radius of the i-th point of the last call
R2(i) == last.x[i] * last.x[i] + last.y[i] * last.y[i]

\* the disk-plane speed of the last call does not decrease with the radius
ProfileNonDecreasing ==
    \A i, j \in 1..Len(last.out) :
        R2(i) <= R2(j) => Field(i) <= Field(j)

\* C9 as claimed: for every parameter set that passes construction the
\* disk-plane speed is non-decreasing in r.
C9_ProfileMonotone ==
    (LastEvalOk /\ last.plane = "disk" /\ last.speed /\ ~last.normalized)
        => ProfileNonDecreasing

\* C9 amended: for every parameter set that passes construction with
\* vcirc >= 0 and rscale > 0 the disk-plane speed is non-decreasing in r.
C9_ProfileMonotonePositive ==
    (/\ LastEvalOk /\ last.plane = "disk" /\ last.speed /\ ~last.normalized
     /\ ArgNum("vcirc") >= 0 /\ ArgNum("rscale") > 0)
        => ProfileNonDecreasing

\* C9 witness: two points of different radius, the farther one faster
C9_Witness ==
    /\ LastEvalOk /\ last.plane = "disk" /\ last.speed
    /\ ArgNum("vcirc") > 0 /\ ArgNum("rscale") > 0
    /\ Len(last.out) >= 2 /\ R2(1) < R2(2) /\ Field(1) < Field(2)

\* C10: a normalized call returns the un-normalized call's field divided by
\* the speed of light in the model's v_unit; an un-normalized call returns
\* the field of _eval_map_in_plane unscaled.
C10_Normalization ==
    LastEvalOk =>
        LET raw == eval_map_in_plane(model, last.arg.items, last.plane,
                                     last.x, last.y, last.speed, last.use_numba)
            plain == velocity_map_call(model, last.arg.items, last.plane,
                                       last.x, last.y, last.speed, FALSE,
                                       last.use_numba)
            c == LightSpeedIn(DictGet(last.arg.items, "v_unit").u)
        IN /\ Len(last.out) = Len(raw.out)
           /\ \A i \in 1..Len(last.out) :
                 IF last.normalized
                 THEN last.out[i] = RatDiv(plain.out[i], c)
                 ELSE last.out[i] = <<raw.out[i], 1>>

\* C10 witness: a normalized call returned a non-zero v / c
C10_Witness ==
    /\ LastEvalOk /\ last.normalized /\ last.plane = "obs"
    /\ last.out[1][1] # 0 /\ last.out[1][2] > 1

====
